---- MODULE Spec2Model ----
(***************************************************************************)
(* A model of onnxruntime/core/util/qmath.h: RoundHalfToEven,              *)
(* GetQuantizationParameter, ParQuantizeLinearStd, ParQuantizeLinearStdS4  *)
(* / U4 and ParQuantizeLinearSat.                                          *)
(*                                                                         *)
(* Floats.  A float of the tensor is an integer count of `unit`: of 1.0f   *)
(* when unit = "one" and of the smallest subnormal when unit = "denorm".   *)
(* FltMax stands for std::numeric_limits<float>::max() and -FltMax for     *)
(* lowest().  A derived float (scale, zero point before the cast) is a     *)
(* rational <<n, d>> with d > 0, or <<1, 0>> (+inf), <<-1, 0>> (-inf),     *)
(* <<0, 0>> (NaN).  Sums and differences of counts are exact; a quotient   *)
(* of subnormals is rounded to the subnormal grid (ties to even), which is *)
(* where binary32 loses a quotient to zero; the 2^-24 relative rounding of *)
(* a normal quotient is not modelled (the quotient is kept exact).         *)
(***************************************************************************)
EXTENDS Integers, Sequences, FiniteSets, TLC

VARIABLES
  func,             \* the routine this behaviour calls
  pc,               \* the caller's position in it
  input,            \* RoundHalfToEven: the argument
  rounded,          \* RoundHalfToEven: the value returned
  num_of_elements,  \* GetQuantizationParameter: element count
  pool,             \* ThreadPool::ShouldParallelize(thread_pool)
  unit,             \* magnitude class of the tensor's floats
  dbase,            \* data: the value of every element that is no spike
  dlo,              \* data: <<position, value>> of the low spike (position -1: none)
  dhi,              \* data: <<position, value>> of the high spike (position -1: none)
  QType,            \* template argument: "int8" or "uint8"
  ReduceRange,      \* template argument
  Symmetric,        \* template argument
  block_size,
  num_blocks,
  aggregate,        \* FloatMinMax aggregate[MAX_DEGREE_OF_PAR_FOR_MINMAX]
  scale,            \* out parameter
  zp,               \* out parameter
  units,            \* the [begin, end) units TryParallelFor split the blocks into
  finished,         \* the units whose body has returned
  wrote,            \* unit -> the set of slots / indices / bytes its body wrote
  INT4_TYPE,        \* template argument of the 4-bit routine: "Int4x2" or "UInt4x2"
  Input,            \* the floats to quantize, Input[0 .. len-1], in halves
  Scale,            \* the scale argument, in halves
  ZeroPoint,        \* the zero point argument
  range,            \* <<out_start, out_end>> (4-bit) or <<0, N>> as the caller passed them
  Output0,          \* the output buffer as the caller passed it
  saturate,         \* ParQuantizeLinearSat: the saturation flag
  Output,           \* the output buffer
  out_start,        \* 4-bit routine: the parameter, advanced by the first boundary step
  out_end,          \* 4-bit routine: the parameter, lowered by the second boundary step
  inp_start,
  inp_end,
  N,                \* the element count handed to the parallel loop
  ival_overflow,    \* an int32_t ival of a scalar path was computed out of range
  inp_read,         \* the indices of Input read so far
  serial_bytes      \* 4-bit routine: the output bytes the boundary steps wrote

roundVars == <<input, rounded>>
qpIn == <<num_of_elements, pool, unit, dbase, dlo, dhi, QType, ReduceRange, Symmetric>>
qpOut == <<aggregate, scale, zp>>
blockVars == <<block_size, num_blocks>>
poolVars == <<units, finished, wrote>>
quantIn == <<INT4_TYPE, Input, Scale, ZeroPoint, range, Output0, saturate>>
quantVars ==
  <<Output, out_start, out_end, inp_start, inp_end, N, ival_overflow, inp_read, serial_bytes>>

vars == <<func, pc, roundVars, qpIn, qpOut, blockVars, poolVars, quantIn, quantVars>>

\* ------------------------------------------------------------------ bounds

\* std::numeric_limits<float>::max() as a count of `unit`
FltMax == 100000
\* RoundHalfToEven is applied to the quarters n/4 with |n| <= RoundMaxNum
RoundMaxNum == 26
\* GetQuantizationParameter is called on buffers of at most MaxBlocks granules
MaxBlocks == 3

\* size_t and std::ptrdiff_t are SizeBits wide (64 in the build; TLC's integers
\* are 32 bits wide, so the model keeps the wrap-around at a smaller width)
SizeBits == 16
\* the 4-bit routines are called with out_start in 0 .. MaxStart
MaxStart == 3
\* int32_t is IntBits wide (32 in the build: the floats of the model reach FltMax
\* only, so the model keeps the range of int32_t below that)
IntBits == 16
\* the block sizes of GetQuantizationParameter are computed for 0 .. MaxElements
MaxElements == 8400

\* ------------------------------------------------------- program constants

MAX_DEGREE_OF_PAR_FOR_MINMAX == 32
granularity == 128

\* --------------------------------------------------------------- rationals

Abs(x) == IF x < 0 THEN -x ELSE x
Min2(a, b) == IF b < a THEN b ELSE a
Max2(a, b) == IF a < b THEN b ELSE a

PosInf == <<1, 0>>
NegInf == <<-1, 0>>
NaN == <<0, 0>>
Rat(n, d) == <<n, d>>
IsFinite(x) == x[2] > 0
IsNaN(x) == x = NaN

\* x < y on floats: false whenever an operand is NaN
FLess(x, y) ==
  IF IsNaN(x) \/ IsNaN(y) THEN FALSE
  ELSE IF ~IsFinite(x) THEN x = NegInf /\ y # NegInf
  ELSE IF ~IsFinite(y) THEN y = PosInf
  ELSE x[1] * y[2] < y[1] * x[2]

FEq(x, y) ==
  IF IsNaN(x) \/ IsNaN(y) THEN FALSE
  ELSE IF ~IsFinite(x) \/ ~IsFinite(y) THEN x = y
  ELSE x[1] * y[2] = y[1] * x[2]

\* std::min(a, b) is (b < a) ? b : a and std::max(a, b) is (a < b) ? b : a
StdMin(a, b) == IF FLess(b, a) THEN b ELSE a
StdMax(a, b) == IF FLess(a, b) THEN b ELSE a

\* the integer nearest n/d (d > 0), the even one of the two when n/d is halfway
NearestTiesAway(n, d) ==
  LET q == n \div d
      r == n - q * d
  IN  IF 2 * r < d THEN q
      ELSE IF 2 * r > d THEN q + 1
      ELSE IF q >= 0 THEN q + 1 ELSE q
NearestEven(n, d) ==
  LET q == n \div d
      r == n - q * d
  IN  IF 2 * r < d THEN q
      ELSE IF 2 * r > d THEN q + 1
      ELSE IF q % 2 = 0 THEN q ELSE q + 1

\* std::remainderf(x, 1.f) for finite x: x - n, n the integer nearest x, ties to even
remainderf(x) == Rat(x[1] - NearestEven(x[1], x[2]) * x[2], x[2])

\* ------------------------------------------------------- RoundHalfToEven

\* std::round in place of the remainder: halfway cases go away from zero
RoundHalfAwayFromZero(x) ==
  IF ~IsFinite(x) THEN x
  ELSE Rat(NearestTiesAway(x[1], x[2]) * x[2], x[2])

RoundHalfToEven(x) ==
  IF ~IsFinite(x) THEN x
  ELSE LET r == remainderf(x) IN Rat(x[1] - r[1], x[2])

\* ------------------------------------------------- the tensor's contents

\* data[i]: dbase everywhere but at the two spikes
Data(i) ==
  IF i = dlo[1] THEN dlo[2] ELSE IF i = dhi[1] THEN dhi[2] ELSE dbase

SetMin(S) == CHOOSE x \in S : \A y \in S : x <= y
SetMax(S) == CHOOSE x \in S : \A y \in S : y <= x

FloatMinMax(mn, mx) == [min |-> mn, max |-> mx, init |-> TRUE]
\* an element of aggregate[] that the initialisation loop did not reach
Indeterminate == [min |-> 0, max |-> 0, init |-> FALSE]

\* MlasFindMinMaxElement(&data[first], &min, &max, count): the least and the
\* greatest of the count elements, max() and lowest() when there is none
MlasFindMinMaxElement(first, count) ==
  LET S == {Data(i) : i \in first .. (first + count - 1)}
  IN  FloatMinMax(SetMin(S \cup {FltMax}), SetMax(S \cup {-FltMax}))

\* ------------------------------------------------ ThreadPool::TryParallelFor

\* the units [begin, end) that the cut points C split [0, n) into
UnitsOf(C, n) ==
  LET P == C \cup {0, n}
  IN  {u \in P \X P : u[1] < u[2] /\ \A c \in P : ~(u[1] < c /\ c < u[2])}

\* every split of the n work units into disjoint [begin, end) units
Splits(n) == {UnitsOf(C, n) : C \in SUBSET (1 .. (n - 1))}

\* -------------------------------------------- GetQuantizationParameter

\* the block size with line 58, the rounding up to the granularity, left out
BlockSizeUnrounded(n, par) ==
  IF par /\ n > granularity
  THEN (n + MAX_DEGREE_OF_PAR_FOR_MINMAX - 1) \div MAX_DEGREE_OF_PAR_FOR_MINMAX
  ELSE n
\* lines 56-63: the block size and the number of blocks
BlockSizeOf(n, par) ==
  IF par /\ n > granularity
  THEN LET b == (n + MAX_DEGREE_OF_PAR_FOR_MINMAX - 1) \div MAX_DEGREE_OF_PAR_FOR_MINMAX
       IN  ((b + granularity - 1) \div granularity) * granularity
  ELSE n
\* one block more than the elements need
NumBlocksOneMore(n, par) ==
  IF par /\ n > granularity
  THEN (n + 2 * BlockSizeOf(n, par) - 1) \div BlockSizeOf(n, par)
  ELSE 1
NumBlocksOf(n, par) ==
  IF par /\ n > granularity
  THEN (n + BlockSizeOf(n, par) - 1) \div BlockSizeOf(n, par)
  ELSE 1

\* lines 65-68: the first num_blocks accumulators get (max(), lowest())
InitAggregate(nb) ==
  [i \in 0 .. (MAX_DEGREE_OF_PAR_FOR_MINMAX - 1) |->
     IF i < nb THEN FloatMinMax(FltMax, -FltMax) ELSE Indeterminate]

\* lines 72-74 of the unit body
BeginIdx(begin) == begin * block_size
EndIdx(end, n) == Min2(n, end * block_size)
\* every unit given the first slot
AggIdxZero(begin) == 0
AggIdx(begin) == begin % num_blocks

\* lines 78-83: fold aggregate[1 .. num_blocks-1] into aggregate[0]
RECURSIVE MergeFrom(_, _, _)
MergeFrom(agg, i, nb) ==
  IF i >= nb THEN agg
  ELSE MergeFrom([agg EXCEPT ![0] = FloatMinMax(Min2(agg[0].min, agg[i].min),
                                                Max2(agg[0].max, agg[i].max))],
                 i + 1, nb)
\* the fold starting one slot late
MergeFromSecond(agg, nb) == MergeFrom(agg, 2, nb)
Merge(agg, nb) == MergeFrom(agg, 1, nb)

\* only the upper end widened
WidenMaxOnly(a) == FloatMinMax(a.min, Max2(a.max, 0))
\* lines 85-86: widen the range to hold zero
Widen(a) == FloatMinMax(Min2(a.min, 0), Max2(a.max, 0))

\* lines 89-95: the quantized range in effect
QMin == IF QType = "int8" THEN (IF ReduceRange THEN -64 ELSE -128) ELSE 0
\* the upper end left at the type's maximum under ReduceRange
QMaxOfType == IF QType = "int8" THEN 127 ELSE 255
QMax == IF QType = "int8" THEN (IF ReduceRange THEN 64 ELSE 127) ELSE 255

\* 1.0f
One == [v |-> Rat(1, 1), u |-> "one"]
\* max - min on counts of `unit`: a small count is absorbed by max(), and
\* max() - lowest() overflows to +inf
FSub(mx, mn) ==
  IF mx = FltMax /\ mn = -FltMax THEN PosInf
  ELSE IF mx = FltMax \/ mn = -FltMax THEN Rat(FltMax, 1)
  ELSE Rat(mx - mn, 1)
\* x / float(q) for q > 0: rounded to the grid when x is subnormal
FDiv(x, q) ==
  IF ~IsFinite(x) THEN x
  ELSE IF unit = "denorm" THEN Rat(NearestEven(x[1], q * x[2]), 1)
  ELSE Rat(x[1], q * x[2])
\* min / scale
FQuot(mn, s) ==
  IF ~IsFinite(s.v) THEN Rat(0, 1)
  ELSE IF s.v[1] = 0 THEN (IF mn < 0 THEN NegInf ELSE IF mn > 0 THEN PosInf ELSE NaN)
  ELSE IF s.u = unit THEN Rat(mn * s.v[2], s.v[1])
  ELSE Rat(0, 1)
\* qmin - x
FFrom(q, x) ==
  IF IsNaN(x) THEN NaN
  ELSE IF x = NegInf THEN PosInf
  ELSE IF x = PosInf THEN NegInf
  ELSE Rat(q * x[2] - x[1], x[2])
\* static_cast<QType> of a float that holds an integer
CastToQType(x) == x[1] \div x[2]

\* the magnitude taken from max alone
SymmetricScaleOfMax(a) ==
  IF a.max > 0 THEN [v |-> FDiv(Rat(a.max, 1), QMax), u |-> unit] ELSE One
\* lines 97-101
SymmetricScale(a) ==
  LET max_value == Max2(a.max, -a.min)
  IN  IF max_value > 0 THEN [v |-> FDiv(Rat(max_value, 1), QMax), u |-> unit] ELSE One
\* the range divided by qmax alone
AsymmetricScaleOfQMax(a) ==
  IF a.max = a.min THEN One
  ELSE [v |-> FDiv(FSub(a.max, a.min), QMax), u |-> unit]
\* line 104
AsymmetricScale(a) ==
  IF a.max = a.min THEN One
  ELSE [v |-> FDiv(FSub(a.max, a.min), QMax - QMin), u |-> unit]
\* lines 106-107
ZeroPointOf(a, s) ==
  LET initial_zero_point == FFrom(QMin, FQuot(a.min, s))
  IN  CastToQType(RoundHalfToEven(
        StdMax(Rat(QMin, 1), StdMin(Rat(QMax, 1), initial_zero_point))))

TakesSymmetricBranch == QType = "int8" /\ Symmetric

\* ------------------------------------------------------ size_t arithmetic

SizeMod == 2 ^ SizeBits
\* the value of a size_t expression
ToSizeT(x) == x % SizeMod
\* static_cast<std::ptrdiff_t> of a size_t
ToPtrdiff(x) == IF x >= SizeMod \div 2 THEN x - SizeMod ELSE x

\* ----------------------------------------------------- int32_t arithmetic

Int32Min == -(2 ^ (IntBits - 1))
Int32Max == (2 ^ (IntBits - 1)) - 1
FitsInt32(v) == Int32Min <= v /\ v <= Int32Max
\* what an int32_t may hold after a conversion from float or a sum left its range
IndeterminateInts == {Int32Min, 0, Int32Max}

\* ------------------------------------------------- Int4x2 and UInt4x2

min_val(T) == IF T = "Int4x2" THEN -8 ELSE 0
max_val(T) == IF T = "Int4x2" THEN 7 ELSE 15
\* the 4 bits that hold the value val
Bits4(val) == val % 16
\* SetElem(k, val) on a byte: k = 0 is the low nibble, k = 1 the high nibble
SetElem(byte, k, val) ==
  IF k = 0 THEN (byte \div 16) * 16 + Bits4(val)
  ELSE Bits4(val) * 16 + (byte % 16)
\* the nibble of logical index j in the packed buffer out
NibbleAt(out, j) ==
  IF j % 2 = 0 THEN out[j \div 2] % 16 ELSE out[j \div 2] \div 16

\* ---------------------------------------------- the quantizers' constants

\* an odd block size
OddBlockSize == granularity - 1
\* constexpr std::ptrdiff_t block_size = 128
QuantBlockSize == 128

\* the number of blocks with the rounding up left out
NumQuantBlocksFloor(n) == n \div QuantBlockSize
\* one block more than the elements need
NumQuantBlocksOneMore(n) == ToSizeT(n + 2 * QuantBlockSize - 1) \div QuantBlockSize
\* (N + block_size - 1) / block_size, computed in size_t
NumQuantBlocks(n) == ToSizeT(n + QuantBlockSize - 1) \div QuantBlockSize

QuantBeginIdx(begin) == begin * block_size
\* end_idx without the std::min against N
QuantEndIdxUnclamped(end, n) == end * block_size
QuantEndIdx(end, n) == Min2(ToPtrdiff(n), end * block_size)

\* ------------------------------------------------ ParQuantizeLinearStdS4/U4

\* the floats Input holds are halves: h stands for h/2, and so does Scale
\* Input[i], and 0 for a read outside the buffer by the kernel
InAt(i) == IF i \in DOMAIN Input THEN Input[i] ELSE 0
\* what a read of Input[i] by the caller may yield: the element, or any float when
\* i lies outside the buffer
IndeterminateFloats == {-20, 0, 20}
ReadInput(i) == IF i \in DOMAIN Input THEN {Input[i]} ELSE IndeterminateFloats

\* a test that finds no index odd
IsOddNever(x) == FALSE
\* lines 164 and 179: out_start & 0x1, out_end & 0x1
IsOdd(x) == x % 2 = 1

\* lines 169-171 and 184-186: ival clamped to the 4-bit range
Clamp4(ival) == Min2(max_val(INT4_TYPE), Max2(min_val(INT4_TYPE), ival))
\* lines 165-171 and 180-186: the boundary element x quantized
QuantizeBoundary(x) ==
  LET ival == NearestEven(x, Scale) + ZeroPoint
  IN  Min2(max_val(INT4_TYPE), Max2(min_val(INT4_TYPE), ival))
\* lines 165-166 and 180-181: the conversion of nearbyintf(x / Scale) to int32_t
\* and the sum with the zero point stay in the range of int32_t
BoundaryFits(x) ==
  LET c == NearestEven(x, Scale)
  IN  FitsInt32(c) /\ FitsInt32(c + ZeroPoint)
\* the values the boundary step may store for x: the quantized one, or a clamped
\* indeterminate int32_t when ival left the range
BoundaryStored(x) ==
  IF BoundaryFits(x) THEN {QuantizeBoundary(x)}
  ELSE {Clamp4(i) : i \in IndeterminateInts}

\* MlasQuantizeLinearS4 / U4, one element: round to nearest even, add the zero
\* point, clamp to the 4-bit range
MlasQuantize4(x) ==
  Max2(min_val(INT4_TYPE), Min2(max_val(INT4_TYPE), NearestEven(x, Scale) + ZeroPoint))
\* the bytes MlasQuantizeLinearS4 / U4 writes for count elements from byte0 on
Mlas4Bytes(byte0, count) ==
  IF count <= 0 THEN {} ELSE byte0 .. (byte0 + ((count + 1) \div 2) - 1)
\* the buffer after MlasQuantizeLinearS4 / U4 packed count elements, read from
\* Input[inp_idx] on, two to a byte from byte0 on
MlasQuantizeLinear4(out, inp_idx, byte0, count) ==
  [b \in DOMAIN out |->
     IF b \notin Mlas4Bytes(byte0, count) THEN out[b]
     ELSE LET e == 2 * (b - byte0)
          IN  IF e + 1 < count
              THEN Bits4(MlasQuantize4(InAt(inp_idx + e)))
                   + 16 * Bits4(MlasQuantize4(InAt(inp_idx + e + 1)))
              ELSE SetElem(out[b], 0, MlasQuantize4(InAt(inp_idx + e)))]

\* line 216 with inp_start left out
InpIdxFromZero(begin_idx) == begin_idx
\* lines 216-217
InpIdx(begin_idx) == begin_idx + ToPtrdiff(inp_start)
\* line 217 with the out_start the caller passed, before the boundary step
OutIdxFromRange(begin_idx) == begin_idx + range[1]
OutIdx(begin_idx) == begin_idx + ToPtrdiff(out_start)

\* ------------------------- ParQuantizeLinearStd and ParQuantizeLinearSat

\* std::numeric_limits<OutputType>::lowest() and max(); QType holds OutputType
TypeLowest(T) == IF T = "int8" THEN -128 ELSE 0
TypeMax(T) == IF T = "int8" THEN 127 ELSE 255
\* static_cast<int32_t> of the float n/d: the fraction is dropped
TruncToZero(n, d) == IF n >= 0 THEN n \div d ELSE -((-n) \div d)

\* MlasQuantizeLinear, one element: round to nearest even, add the zero point,
\* clamp to the output type
MlasQuantize(x) ==
  Max2(TypeLowest(QType), Min2(TypeMax(QType), NearestEven(x, Scale) + ZeroPoint))
\* lines 253-254: ival clamped to the output type
ClampOut(ival) == Min2(TypeMax(QType), Max2(TypeLowest(QType), ival))
\* the quotient rounded to nearest in place of the cast
QuantizeF16Rounded(x) == ClampOut(NearestEven(x, Scale) + ZeroPoint)
\* lines 252-254, one element of the MLFloat16 loop
QuantizeF16(x) ==
  LET ival == TruncToZero(x, Scale) + ZeroPoint
  IN  Min2(TypeMax(QType), Max2(TypeLowest(QType), ival))
\* line 252: the conversion of the quotient to int32_t and the sum with the zero
\* point stay in the range of int32_t
F16Fits(x) ==
  LET c == TruncToZero(x, Scale)
  IN  FitsInt32(c) /\ FitsInt32(c + ZeroPoint)
\* OutputFloat8Type(Input[i] / Scale, saturate): the quotient, converted
Float8(x) == <<"float8", Rat(x, Scale), saturate>>

\* what the body stores at Output[i]
StdElement(i) ==
  IF func = "ParQuantizeLinearStd" THEN MlasQuantize(InAt(i))
  ELSE IF func = "ParQuantizeLinearStd_MLFloat16" THEN QuantizeF16(InAt(i))
  ELSE Float8(InAt(i))

\* Input[i] is an element of the MLFloat16 loop whose ival leaves the range of
\* int32_t
F16Unfit(i) == func = "ParQuantizeLinearStd_MLFloat16" /\ ~F16Fits(InAt(i))

\* ----------------------------------------------------------------- inputs

\* the arguments RoundHalfToEven is applied to: quarters, the infinities, NaN
RoundInputs ==
  {Rat(n, 4) : n \in (-RoundMaxNum) .. RoundMaxNum} \cup {PosInf, NegInf, NaN}

\* element counts around the granule boundaries
Counts ==
  {n \in {k * granularity + d : k \in 0 .. MaxBlocks, d \in {0, 1}} :
     0 <= n /\ n <= MaxBlocks * granularity}
\* where a spike may sit in a buffer of n elements
Positions(n) ==
  {p \in {0, granularity, n - 1} : 0 <= p /\ p < n}
BaseVals == {-1, 0, 2}
LoVals(u) == IF u = "one" THEN {-300, -FltMax} ELSE {-300}
HiVals(u) == IF u = "one" THEN {3, 510, FltMax} ELSE {510}
NoSpike == <<-1, 0>>

\* the float buffers of the quantizers: Input[i] = Pattern(seed, i), in halves
Pattern(seed, i) == ((i * 7 + seed * 3) % 41) - 20
InputOf(seed, len) == [i \in 0 .. (len - 1) |-> Pattern(seed, i)]
Seeds == {0, 1}
\* the lengths of the 4-bit ranges: around zero and around the block boundaries
Lengths4 ==
  {0, 1, 2, 3} \cup {k * QuantBlockSize + d : k \in 1 .. (MaxBlocks - 1), d \in {-1, 0, 1, 2}}
Fills == {0, 165}

RoundIdle == input = NaN /\ rounded = NaN
QPIdle ==
  /\ num_of_elements = 0 /\ pool = FALSE /\ unit = "one"
  /\ dbase = 0 /\ dlo = NoSpike /\ dhi = NoSpike
  /\ QType = "uint8" /\ ReduceRange = FALSE /\ Symmetric = FALSE
  /\ aggregate = [i \in 0 .. (MAX_DEGREE_OF_PAR_FOR_MINMAX - 1) |-> Indeterminate]
  /\ scale = One /\ zp = 0
PoolIdle ==
  /\ block_size = 0 /\ num_blocks = 0
  /\ units = {} /\ finished = {} /\ wrote = << >>
QuantIdle ==
  /\ INT4_TYPE = "Int4x2" /\ Input = << >> /\ Scale = 2 /\ ZeroPoint = 0
  /\ range = <<0, 0>> /\ Output0 = << >> /\ Output = << >> /\ saturate = FALSE
  /\ out_start = 0 /\ out_end = 0 /\ inp_start = 0 /\ inp_end = 0 /\ N = 0
  /\ ival_overflow = FALSE /\ inp_read = {} /\ serial_bytes = {}

\* ------------------------------------------------ RoundHalfToEven, called

InitRound ==
  /\ func = "RoundHalfToEven" /\ pc = "start"
  /\ input \in RoundInputs /\ rounded = NaN
  /\ QPIdle /\ PoolIdle /\ QuantIdle

CallRoundHalfToEven ==
  /\ func = "RoundHalfToEven" /\ pc = "start"
  /\ rounded' = RoundHalfToEven(input)
  /\ pc' = "done"
  /\ UNCHANGED <<func, input, qpIn, qpOut, blockVars, poolVars, quantIn, quantVars>>

NextRound == CallRoundHalfToEven
SpecRound == InitRound /\ [][NextRound]_vars

\* ------------------------------------- GetQuantizationParameter, called

InitQP ==
  /\ func = "GetQuantizationParameter" /\ pc = "start"
  /\ RoundIdle /\ PoolIdle /\ QuantIdle
  /\ num_of_elements \in Counts
  /\ pool \in BOOLEAN
  /\ unit \in {"one", "denorm"}
  /\ dbase \in BaseVals
  /\ dlo \in {NoSpike} \cup (Positions(num_of_elements) \X LoVals(unit))
  /\ dhi \in {NoSpike} \cup (Positions(num_of_elements) \X HiVals(unit))
  /\ QType \in {"int8", "uint8"}
  /\ ReduceRange \in BOOLEAN
  /\ Symmetric \in BOOLEAN
  /\ aggregate = [i \in 0 .. (MAX_DEGREE_OF_PAR_FOR_MINMAX - 1) |-> Indeterminate]
  /\ scale = One /\ zp = 0

\* lines 49-68
QP_Setup ==
  /\ func = "GetQuantizationParameter" /\ pc = "start"
  /\ block_size' = BlockSizeOf(num_of_elements, pool)
  /\ num_blocks' = NumBlocksOf(num_of_elements, pool)
  /\ aggregate' = InitAggregate(num_blocks')
  /\ pc' = "dispatch"
  /\ UNCHANGED <<func, roundVars, qpIn, scale, zp, poolVars, quantIn, quantVars>>

\* line 71: TryParallelFor splits the num_blocks work units
QP_Dispatch ==
  /\ func = "GetQuantizationParameter" /\ pc = "dispatch"
  /\ units' \in Splits(num_blocks)
  /\ finished' = {}
  /\ wrote' = [u \in units' |-> {}]
  /\ pc' = "parallel"
  /\ UNCHANGED <<func, roundVars, qpIn, qpOut, blockVars, quantIn, quantVars>>

\* lines 72-75: the body of one unit
QP_Unit(u) ==
  /\ func = "GetQuantizationParameter" /\ pc = "parallel"
  /\ u \in units \ finished
  /\ LET begin_idx == BeginIdx(u[1])
         end_idx == EndIdx(u[2], num_of_elements)
         agg_idx == AggIdx(u[1])
     IN  /\ aggregate' = [aggregate EXCEPT
                            ![agg_idx] = MlasFindMinMaxElement(begin_idx, end_idx - begin_idx)]
         /\ wrote' = [wrote EXCEPT ![u] = {agg_idx}]
  /\ finished' = finished \cup {u}
  /\ UNCHANGED <<func, pc, roundVars, qpIn, scale, zp, blockVars, units, quantIn, quantVars>>

\* TryParallelFor returning while units are still to run
QP_JoinEarly ==
  /\ func = "GetQuantizationParameter" /\ pc = "parallel"
  /\ pc' = "joined"
  /\ UNCHANGED <<func, roundVars, qpIn, qpOut, blockVars, poolVars, quantIn, quantVars>>
\* TryParallelFor returns once every unit has finished
QP_Join ==
  /\ func = "GetQuantizationParameter" /\ pc = "parallel"
  /\ finished = units
  /\ pc' = "joined"
  /\ UNCHANGED <<func, roundVars, qpIn, qpOut, blockVars, poolVars, quantIn, quantVars>>

\* lines 78-83
QP_Merge ==
  /\ func = "GetQuantizationParameter" /\ pc = "joined"
  /\ aggregate' = Merge(aggregate, num_blocks)
  /\ pc' = "merged"
  /\ UNCHANGED <<func, roundVars, qpIn, scale, zp, blockVars, poolVars, quantIn, quantVars>>

\* lines 85-86
QP_Widen ==
  /\ func = "GetQuantizationParameter" /\ pc = "merged"
  /\ aggregate' = [aggregate EXCEPT ![0] = Widen(aggregate[0])]
  /\ pc' = "widened"
  /\ UNCHANGED <<func, roundVars, qpIn, scale, zp, blockVars, poolVars, quantIn, quantVars>>

\* lines 89-107
QP_Params ==
  /\ func = "GetQuantizationParameter" /\ pc = "widened"
  /\ IF TakesSymmetricBranch
     THEN /\ zp' = 0
          /\ scale' = SymmetricScale(aggregate[0])
     ELSE /\ scale' = AsymmetricScale(aggregate[0])
          /\ zp' = ZeroPointOf(aggregate[0], scale')
  /\ pc' = "done"
  /\ UNCHANGED <<func, roundVars, qpIn, aggregate, blockVars, poolVars, quantIn, quantVars>>

\* ------------------------------------------------------------- claims

AtQP(p) == func = "GetQuantizationParameter" /\ pc = p
\* the two scales are the same float
SameScale(s, t) ==
  IF ~IsFinite(s.v) \/ ~IsFinite(t.v) THEN s.v = t.v /\ ~IsNaN(s.v)
  ELSE FEq(s.v, t.v) /\ (s.u = t.u \/ s.v[1] = 0)

\* C4: when the merge loop has run, aggregate[0] holds the least and the greatest
\* element of the whole buffer, as one kernel call over [0, N) computes them,
\* whatever the block size, the split into units and the order the units ran in.
C4_MergedEqualsSingleBlock ==
  (AtQP("merged") /\ num_of_elements >= 1) =>
    LET whole == MlasFindMinMaxElement(0, num_of_elements)
    IN  aggregate[0].min = whole.min /\ aggregate[0].max = whole.max
\* a run of three blocks in two units whose least element sits in the last block
C4_Witness ==
  /\ AtQP("merged") /\ num_blocks = 3 /\ Cardinality(units) = 2
  /\ dlo[1] >= 2 * granularity /\ aggregate[0].min = dlo[2]
  /\ dhi[1] = 0 /\ aggregate[0].max = dhi[2]

\* C5: after the widening step min <= 0 <= max, and min = max = 0 on an empty buffer.
C5_RangeHoldsZero ==
  (func = "GetQuantizationParameter" /\ pc \in {"widened", "done"}) =>
    /\ aggregate[0].min <= 0 /\ 0 <= aggregate[0].max
    /\ num_of_elements = 0 => (aggregate[0].min = 0 /\ aggregate[0].max = 0)
\* a buffer of positive elements only: the widening moved min down to zero
C5_Witness ==
  /\ AtQP("widened") /\ num_of_elements = 2 * granularity + 1 /\ dbase = 2
  /\ dlo = NoSpike /\ dhi = NoSpike
  /\ aggregate[0].min = 0 /\ aggregate[0].max = 2

\* C6: the zero point returned lies in the range in effect: [-64, 64] for int8 with
\* ReduceRange, [-128, 127] for int8 without, [0, 255] for uint8.
C6_ZeroPointInRange ==
  AtQP("done") =>
    IF QType = "int8"
    THEN (IF ReduceRange THEN -64 <= zp /\ zp <= 64 ELSE -128 <= zp /\ zp <= 127)
    ELSE 0 <= zp /\ zp <= 255
\* int8 with ReduceRange on a buffer with no positive element: the zero point is 64
C6_Witness ==
  /\ AtQP("done") /\ QType = "int8" /\ ReduceRange /\ ~Symmetric
  /\ aggregate[0].max = 0 /\ aggregate[0].min < 0 /\ zp = 64

\* C7: the scale returned is strictly positive.
C7_ScaleStrictlyPositive ==
  AtQP("done") => FLess(Rat(0, 1), scale.v)

\* C8 as stated: whenever Symmetric is requested, zero_point = 0 and
\* scale = max(|min|, max) / qmax.
C8_SymmetricAsStated ==
  (AtQP("done") /\ Symmetric) =>
    /\ zp = 0
    /\ SameScale(scale, [v |-> FDiv(Rat(Max2(Abs(aggregate[0].min), aggregate[0].max), 1),
                                    QMax),
                         u |-> unit])
\* C8 amended: for int8 output with Symmetric requested, zero_point = 0 and scale is
\* max(|min|, max) / qmax (qmax = 64 under ReduceRange, 127 otherwise) when that
\* maximum is positive and 1.0 when it is zero.
C8_SymmetricInt8 ==
  (AtQP("done") /\ Symmetric /\ QType = "int8") =>
    LET m == Max2(Abs(aggregate[0].min), aggregate[0].max)
        q == IF ReduceRange THEN 64 ELSE 127
    IN  /\ zp = 0
        /\ IF m > 0 THEN SameScale(scale, [v |-> FDiv(Rat(m, 1), q), u |-> unit])
                    ELSE scale = One
\* a symmetric int8 call on a buffer whose magnitude comes from its least element
C8_Witness ==
  /\ AtQP("done") /\ Symmetric /\ QType = "int8" /\ unit = "one"
  /\ aggregate[0].min = -300 /\ aggregate[0].max = 2
  /\ scale.v = Rat(300, 127) /\ zp = 0

RoundDone == func = "RoundHalfToEven" /\ pc = "done"
\* the value r that RoundHalfToEven returned for the finite argument n/d
Returned(r) == IsFinite(rounded) /\ rounded[1] = r * rounded[2]
\* C9: for a finite x the value returned is an integer no further than 1/2 from x,
\* the even one when x is halfway between two integers (0.5 -> 0, 1.5 -> 2,
\* 2.5 -> 2, -0.5 -> 0, -1.5 -> -2); a non-finite x is returned unchanged.
C9_RoundHalfToEven ==
  RoundDone =>
    IF IsFinite(input)
    THEN /\ \E r \in (-RoundMaxNum) .. RoundMaxNum :
              /\ Returned(r)
              /\ 2 * Abs(input[1] - r * input[2]) <= input[2]
              /\ 2 * Abs(input[1] - r * input[2]) = input[2] => r % 2 = 0
         /\ input = Rat(2, 4) => Returned(0)
         /\ input = Rat(6, 4) => Returned(2)
         /\ input = Rat(10, 4) => Returned(2)
         /\ input = Rat(-2, 4) => Returned(0)
         /\ input = Rat(-6, 4) => Returned(-2)
    ELSE rounded = input
\* 2.5, halfway between 2 and 3, was rounded to 2
C9_Witness == RoundDone /\ input = Rat(10, 4) /\ Returned(2)

NextQP ==
  \/ QP_Setup
  \/ QP_Dispatch
  \/ \E u \in units : QP_Unit(u)
  \/ QP_Join
  \/ QP_Merge
  \/ QP_Widen
  \/ QP_Params
SpecQP == InitQP /\ [][NextQP]_vars

\* C12: a unit's body runs only between the dispatch and the return of
\* TryParallelFor; the merge loop, the widening and the computation of scale and
\* zero point run only when every dispatched unit has finished.
C12_MergeAfterAllUnits ==
  [][func = "GetQuantizationParameter" =>
       /\ finished' # finished => (pc = "parallel" /\ pc' = "parallel")
       /\ pc' \in {"joined", "merged", "widened", "done"} => finished' = units'
       /\ pc \in {"joined", "merged", "widened"} =>
            \A u \in units : wrote'[u] = wrote[u]
       /\ (scale' # scale \/ zp' # zp) => (pc = "widened" /\ finished = units)]_vars
\* three blocks run as three units, all finished when the merge loop has run
C12_Witness ==
  /\ AtQP("merged") /\ num_blocks = 3 /\ Cardinality(units) = 3
  /\ finished = units /\ \A u \in units : wrote[u] # {}

\* C14: every unit [begin, end) writes the one slot begin % num_blocks = begin, which
\* lies in [0, num_blocks); no two units write the same slot; a slot no unit wrote
\* keeps (max(), lowest()), and the merge loop yields what the written slots alone
\* yield.
C14_OneSlotPerUnit ==
  (func = "GetQuantizationParameter" /\ pc \in {"parallel", "joined"}) =>
    LET written == UNION {wrote[u] : u \in units}
    IN  /\ \A u \in finished :
             /\ wrote[u] = {u[1]}
             /\ 0 <= u[1] /\ u[1] < num_blocks /\ u[1] % num_blocks = u[1]
        /\ \A u \in units : \A v \in units :
             u # v => (u[1] # v[1] /\ wrote[u] \cap wrote[v] = {})
        /\ \A i \in 0 .. (num_blocks - 1) :
             i \notin written =>
               (aggregate[i].min = FltMax /\ aggregate[i].max = -FltMax)
        /\ pc = "joined" =>
             /\ Merge(aggregate, num_blocks)[0].min =
                  SetMin({aggregate[i].min : i \in written})
             /\ Merge(aggregate, num_blocks)[0].max =
                  SetMax({aggregate[i].max : i \in written})
\* three blocks in two units: one slot of the three was written by no unit
C14_Witness ==
  /\ AtQP("joined") /\ num_blocks = 3 /\ Cardinality(units) = 2
  /\ \E i \in 1 .. 2 :
       /\ \A u \in units : i \notin wrote[u]
       /\ aggregate[i].min = FltMax /\ aggregate[i].max = -FltMax
  /\ aggregate[0].min < 0

\* C16: outside the Symmetric branch, scale is (max - min) / (qmax - qmin) in float
\* arithmetic when max != min and 1.0 when max = min; when that scale is finite and
\* positive the zero point is the integer nearest clamp(qmin - min / scale, qmin, qmax),
\* the even one on a tie, and it is qmin when the scale is +inf; a buffer with least
\* element -1 and greatest element 3 quantized to uint8 gets scale 4/255 and zero
\* point 64.
C16_AsymmetricParams ==
  (AtQP("done") /\ ~(Symmetric /\ QType = "int8")) =>
    LET mn == aggregate[0].min
        mx == aggregate[0].max
        qmin == IF QType = "int8" THEN (IF ReduceRange THEN -64 ELSE -128) ELSE 0
        qmax == IF QType = "int8" THEN (IF ReduceRange THEN 64 ELSE 127) ELSE 255
        n == scale.v[1]
        d == scale.v[2]
        \* qmin - min / scale is tn / n
        tn == qmin * n - mn * d
    IN  /\ IF mx = mn THEN scale = One
           ELSE SameScale(scale, [v |-> FDiv(FSub(mx, mn), qmax - qmin), u |-> unit])
        /\ (IsFinite(scale.v) /\ n > 0) =>
             /\ qmin <= zp /\ zp <= qmax
             /\ IF tn <= qmin * n THEN zp = qmin
                ELSE IF tn >= qmax * n THEN zp = qmax
                ELSE /\ 2 * Abs(zp * n - tn) <= n
                     /\ 2 * Abs(zp * n - tn) = n => zp % 2 = 0
        /\ scale.v = PosInf => zp = qmin
        /\ (unit = "one" /\ QType = "uint8" /\ mn = -1 /\ mx = 3) =>
             (FEq(scale.v, Rat(4, 255)) /\ zp = 64)
\* the scenario: least element -1, greatest element 3, uint8
C16_Witness ==
  /\ AtQP("done") /\ unit = "one" /\ QType = "uint8" /\ ~Symmetric /\ ~ReduceRange
  /\ dbase = -1 /\ dhi[1] >= 0 /\ dhi[2] = 3 /\ dlo = NoSpike
  /\ aggregate[0].min = -1 /\ aggregate[0].max = 3
  /\ scale.v = Rat(4, 255) /\ zp = 64

\* ------------------------- GetQuantizationParameter, the blocks it chooses

InitQPBlocks ==
  /\ func = "GetQuantizationParameter" /\ pc = "start"
  /\ RoundIdle /\ PoolIdle /\ QuantIdle
  /\ num_of_elements \in 0 .. MaxElements
  /\ pool \in BOOLEAN
  /\ unit = "one" /\ dbase = 0 /\ dlo = NoSpike /\ dhi = NoSpike
  /\ QType = "uint8" /\ ReduceRange = FALSE /\ Symmetric = FALSE
  /\ aggregate = [i \in 0 .. (MAX_DEGREE_OF_PAR_FOR_MINMAX - 1) |-> Indeterminate]
  /\ scale = One /\ zp = 0

NextQPBlocks == QP_Setup
SpecQPBlocks == InitQPBlocks /\ [][NextQPBlocks]_vars

\* C13: with a pool that parallelizes and N > 128, block_size is a positive multiple
\* of 128, num_blocks * block_size >= N and 1 <= num_blocks <= 32, so the slots
\* 0 .. num_blocks-1 lie in the 32-entry array (and are the ones initialised);
\* otherwise there is one block of size N.
C13_BlocksCoverWithin32 ==
  AtQP("dispatch") =>
    IF pool /\ num_of_elements > 128
    THEN /\ block_size > 0 /\ block_size % 128 = 0
         /\ num_blocks * block_size >= num_of_elements
         /\ 1 <= num_blocks /\ num_blocks <= 32
         /\ \A i \in 0 .. (num_blocks - 1) : i \in DOMAIN aggregate /\ aggregate[i].init
         /\ Cardinality(DOMAIN aggregate) = 32
    ELSE num_blocks = 1 /\ block_size = num_of_elements
\* C21: for every unit [begin, end) with 0 <= begin < end <= num_blocks the range
\* handed to the kernel has 0 <= begin_idx <= end_idx <= N, with begin_idx =
\* begin * block_size and end_idx = min(N, end * block_size), so its count is not
\* negative; and for N >= 1 the last block is not empty:
\* (num_blocks - 1) * block_size < N.
C21_UnitRangesInsideBuffer ==
  AtQP("dispatch") =>
    /\ \A begin \in 0 .. (num_blocks - 1) : \A end \in (begin + 1) .. num_blocks :
         LET begin_idx == BeginIdx(begin)
             end_idx == EndIdx(end, num_of_elements)
         IN  /\ begin_idx = begin * block_size
             /\ end_idx = (IF end * block_size < num_of_elements
                           THEN end * block_size ELSE num_of_elements)
             /\ 0 <= begin_idx /\ begin_idx <= end_idx /\ end_idx <= num_of_elements
             /\ end_idx - begin_idx >= 0
             /\ num_of_elements >= 1 => end_idx - begin_idx >= 1
    /\ num_of_elements >= 1 => (num_blocks - 1) * block_size < num_of_elements
\* 8193 elements: 22 blocks of 384, the last one of 129 elements
C21_Witness ==
  /\ AtQP("dispatch") /\ pool /\ num_of_elements = 8193
  /\ block_size = 384 /\ num_blocks = 22
  /\ EndIdx(22, num_of_elements) - BeginIdx(21) = 129

\* 4097 elements: 17 blocks of 256
C13_Witness ==
  /\ AtQP("dispatch") /\ pool /\ num_of_elements = 4097
  /\ block_size = 256 /\ num_blocks = 17 /\ aggregate[16].init /\ ~aggregate[17].init

\* ------------------------------------ ParQuantizeLinearStdS4 / U4, called

Is4Bit == func \in {"ParQuantizeLinearStdS4", "ParQuantizeLinearStdU4"}

Init4 ==
  /\ func \in {"ParQuantizeLinearStdS4", "ParQuantizeLinearStdU4"}
  /\ pc = "start"
  /\ RoundIdle /\ QPIdle /\ PoolIdle
  /\ INT4_TYPE = (IF func = "ParQuantizeLinearStdS4" THEN "Int4x2" ELSE "UInt4x2")
  /\ range \in {<<s, s + len>> : s \in 0 .. MaxStart, len \in Lengths4}
  /\ Input \in {InputOf(seed, range[2] - range[1]) : seed \in Seeds}
  /\ Scale \in {2, 4}
  /\ ZeroPoint \in {min_val(INT4_TYPE), 0, 3}
  /\ Output0 \in {[b \in 0 .. ((range[2] + 1) \div 2) |-> fill] : fill \in Fills}
  /\ Output = Output0 /\ saturate = FALSE
  /\ out_start = range[1] /\ out_end = range[2]
  /\ inp_start = 0 /\ inp_end = 0 /\ N = 0
  /\ ival_overflow = FALSE /\ inp_read = {} /\ serial_bytes = {}

\* lines 160-176: the cursors, and the element of an odd out_start by itself
Q4_StartBoundary ==
  /\ Is4Bit /\ pc = "start"
  /\ inp_end' = ToSizeT(out_end - out_start)
  /\ IF IsOdd(out_start)
     THEN \E x \in ReadInput(0) : \E quant_val \in BoundaryStored(x) :
            LET output_index == out_start \div 2
            IN  /\ Output' = [Output EXCEPT ![output_index] =
                                SetElem(Output[output_index], 1, quant_val)]
                /\ out_start' = ToSizeT(out_start + 1)
                /\ inp_start' = 1
                /\ ival_overflow' = (ival_overflow \/ ~BoundaryFits(x))
                /\ inp_read' = inp_read \cup {0}
                /\ serial_bytes' = serial_bytes \cup {output_index}
     ELSE /\ inp_start' = 0
          /\ UNCHANGED <<Output, out_start, ival_overflow, inp_read, serial_bytes>>
  /\ pc' = "end_boundary"
  /\ UNCHANGED <<func, roundVars, qpIn, qpOut, blockVars, poolVars, quantIn, out_end, N>>

\* lines 178-191: the element before an odd out_end by itself
Q4_EndBoundary ==
  /\ Is4Bit /\ pc = "end_boundary"
  /\ IF IsOdd(out_end)
     THEN \E x \in ReadInput(ToSizeT(inp_end - 1)) : \E quant_val \in BoundaryStored(x) :
            LET output_index == ToSizeT(out_end - 1) \div 2
            IN  /\ Output' = [Output EXCEPT ![output_index] =
                                SetElem(Output[output_index], 0, quant_val)]
                /\ out_end' = ToSizeT(out_end - 1)
                /\ inp_end' = ToSizeT(inp_end - 1)
                /\ ival_overflow' = (ival_overflow \/ ~BoundaryFits(x))
                /\ inp_read' = inp_read \cup {ToSizeT(inp_end - 1)}
                /\ serial_bytes' = serial_bytes \cup {output_index}
     ELSE UNCHANGED <<Output, out_end, inp_end, ival_overflow, inp_read, serial_bytes>>
  /\ pc' = "check_empty"
  /\ UNCHANGED <<func, roundVars, qpIn, qpOut, blockVars, poolVars, quantIn, out_start,
                 inp_start, N>>

\* lines 193-207: the empty-range return, the count, the assertion, the blocks
Q4_Blocks ==
  /\ Is4Bit /\ pc = "check_empty"
  /\ IF out_start = out_end
     THEN /\ pc' = "done"
          /\ UNCHANGED <<N, blockVars>>
     ELSE /\ N' = ToSizeT(out_end - out_start)
          /\ block_size' = QuantBlockSize
          /\ num_blocks' = NumQuantBlocks(N')
          /\ pc' = IF N' % 2 = 0 THEN "dispatch" ELSE "assert_failed"
  /\ UNCHANGED <<func, roundVars, qpIn, qpOut, poolVars, quantIn, Output, out_start,
                 out_end, inp_start, inp_end, ival_overflow, inp_read, serial_bytes>>

\* line 211: TryParallelFor splits the num_blocks work units
Q4_Dispatch ==
  /\ Is4Bit /\ pc = "dispatch"
  /\ units' \in Splits(num_blocks)
  /\ finished' = {}
  /\ wrote' = [u \in units' |-> {}]
  /\ pc' = "parallel"
  /\ UNCHANGED <<func, roundVars, qpIn, qpOut, blockVars, quantIn, quantVars>>

\* lines 213-224: the body of one unit
Q4_Unit(u) ==
  /\ Is4Bit /\ pc = "parallel"
  /\ u \in units \ finished
  /\ LET begin_idx == QuantBeginIdx(u[1])
         end_idx == QuantEndIdx(u[2], N)
         inp_idx == InpIdx(begin_idx)
         out_idx == OutIdx(begin_idx)
     IN  /\ Output' = MlasQuantizeLinear4(Output, inp_idx, out_idx \div 2,
                                          end_idx - begin_idx)
         /\ wrote' = [wrote EXCEPT ![u] = Mlas4Bytes(out_idx \div 2, end_idx - begin_idx)]
         /\ inp_read' = inp_read \cup (inp_idx .. (inp_idx + (end_idx - begin_idx) - 1))
  /\ finished' = finished \cup {u}
  /\ UNCHANGED <<func, pc, roundVars, qpIn, qpOut, blockVars, units, quantIn, out_start,
                 out_end, inp_start, inp_end, N, ival_overflow, serial_bytes>>

\* TryParallelFor returns once every unit has finished, and so does the routine
Q4_Join ==
  /\ Is4Bit /\ pc = "parallel"
  /\ finished = units
  /\ pc' = "done"
  /\ UNCHANGED <<func, roundVars, qpIn, qpOut, blockVars, poolVars, quantIn, quantVars>>

Next4 ==
  \/ Q4_StartBoundary
  \/ Q4_EndBoundary
  \/ Q4_Blocks
  \/ Q4_Dispatch
  \/ \E u \in units : Q4_Unit(u)
  \/ Q4_Join
Spec4 == Init4 /\ [][Next4]_vars

\* C1: no two parallel units of the 4-bit routine write the same output byte, and
\* a finished unit [begin, end) wrote the bytes (out_start + begin*128) >> 1 up to
\* ((out_start + min(N, end*128)) >> 1) - 1, out_start being the start after the
\* boundary steps.
C1_UnitsWriteDisjointBytes ==
  (Is4Bit /\ pc \in {"parallel", "done"}) =>
    /\ \A u \in units : \A v \in units :
         u # v => wrote[u] \cap wrote[v] = {}
    /\ \A u \in finished :
         wrote[u] = ((out_start + u[1] * QuantBlockSize) \div 2) ..
                    (((out_start + Min2(N, u[2] * QuantBlockSize)) \div 2) - 1)
\* a range from an odd index to an odd index, quantized by two units
C1_Witness ==
  /\ Is4Bit /\ pc = "done" /\ range[1] % 2 = 1 /\ range[2] % 2 = 1
  /\ Cardinality(units) = 2
  /\ \A u \in units : wrote[u] # {}

\* C2: when the 4-bit routine has returned, the nibble of every logical index j of
\* [out_start, out_end) holds clamp(round_to_nearest_even(Input[j - out_start] / Scale)
\* + ZeroPoint, min_val, max_val), whatever the split into units.
C2_NibblesEqualReference ==
  (Is4Bit /\ pc = "done") =>
    \A j \in range[1] .. (range[2] - 1) :
      LET ival == NearestEven(Input[j - range[1]], Scale) + ZeroPoint
          lo == IF func = "ParQuantizeLinearStdS4" THEN -8 ELSE 0
          hi == IF func = "ParQuantizeLinearStdS4" THEN 7 ELSE 15
          q == IF ival < lo THEN lo ELSE IF ival > hi THEN hi ELSE ival
      IN  NibbleAt(Output, j) = q % 16
\* a range from an odd index to an odd index, quantized by two units, with a
\* clamped first element
C2_Witness ==
  /\ Is4Bit /\ pc = "done" /\ range[1] = 3 /\ range[2] % 2 = 1
  /\ Cardinality(units) = 2 /\ func = "ParQuantizeLinearStdS4"
  /\ Scale = 2 /\ ZeroPoint = 0 /\ Input[0] = -20
  /\ NibbleAt(Output, 3) = 8

\* C3: the 4-bit routine changes no nibble whose logical index lies outside
\* [out_start, out_end), for every out_start <= out_end.
C3_OnlyRangeNibblesChange ==
  Is4Bit =>
    \A j \in 0 .. (2 * Cardinality(DOMAIN Output) - 1) :
      (j < range[1] \/ j >= range[2]) => NibbleAt(Output, j) = NibbleAt(Output0, j)

\* C15: whenever control is at or past the assertion of line 201 (the boundary steps
\* done, the range not empty), N is even and so are out_start and out_end; the
\* assertion never fails.
C15_EvenAtAssertion ==
  (Is4Bit /\ pc \in {"dispatch", "assert_failed", "parallel"}) =>
    /\ N % 2 = 0 /\ out_start % 2 = 0 /\ out_end % 2 = 0
    /\ N = ToSizeT(out_end - out_start)
    /\ pc # "assert_failed"
\* a range from an odd index to an odd index, both boundary steps taken
C15_Witness ==
  /\ Is4Bit /\ pc = "dispatch" /\ range[1] % 2 = 1 /\ range[2] % 2 = 1
  /\ out_start = range[1] + 1 /\ out_end = range[2] - 1
  /\ N = range[2] - range[1] - 2 /\ N >= QuantBlockSize

\* C19: every index of Input that the 4-bit routine reads lies in
\* [0, out_end - out_start) of the range passed, after the boundary steps
\* out_start <= out_end, and N = out_end - out_start does not wrap.
C19_ReadsInsideNoUnderflow ==
  Is4Bit =>
    /\ \A i \in inp_read : 0 <= i /\ i < range[2] - range[1]
    /\ pc \notin {"start", "end_boundary"} => out_start <= out_end
    /\ pc \in {"dispatch", "assert_failed", "parallel"} => N = out_end - out_start
\* C19 holds on every range but the empty one at an odd index
C19_HoldsUnlessEmptyOdd ==
  (range[1] # range[2] \/ range[1] % 2 = 0) => C19_ReadsInsideNoUnderflow

\* C20: no parallel unit writes a byte that a boundary step wrote, and the boundary
\* steps write before any unit is dispatched.
C20_BoundaryBytesSerialOnly ==
  [][Is4Bit =>
       /\ \A u \in units' : wrote'[u] \cap serial_bytes' = {}
       /\ serial_bytes' # serial_bytes =>
            (units = {} /\ pc \in {"start", "end_boundary"}
                        /\ pc' \in {"end_boundary", "check_empty"})]_vars
\* both boundary bytes written, then two units over the bytes between them
C20_Witness ==
  /\ Is4Bit /\ pc = "done" /\ Cardinality(serial_bytes) = 2
  /\ Cardinality(units) = 2 /\ \A u \in units : wrote[u] # {}
  /\ \A b \in serial_bytes : Output[b] # Output0[b]

\* ------------------- ParQuantizeLinearStd and ParQuantizeLinearSat, called

StdFuncs ==
  {"ParQuantizeLinearStd", "ParQuantizeLinearStd_MLFloat16",
   "ParQuantizeLinearSat", "ParQuantizeLinearSat_MLFloat16"}
IsStd == func \in StdFuncs
IsSat == func \in {"ParQuantizeLinearSat", "ParQuantizeLinearSat_MLFloat16"}

InitStd ==
  /\ func \in StdFuncs
  /\ pc = "start"
  /\ RoundIdle /\ PoolIdle
  /\ num_of_elements = 0 /\ pool = FALSE /\ unit = "one"
  /\ dbase = 0 /\ dlo = NoSpike /\ dhi = NoSpike
  /\ ReduceRange = FALSE /\ Symmetric = FALSE
  /\ aggregate = [i \in 0 .. (MAX_DEGREE_OF_PAR_FOR_MINMAX - 1) |-> Indeterminate]
  /\ scale = One /\ zp = 0
  /\ INT4_TYPE = "Int4x2"
  /\ N \in Counts
  /\ range = <<0, N>>
  /\ Input \in {InputOf(seed, N) : seed \in Seeds}
  /\ Scale \in {2, 4}
  /\ QType \in (IF IsSat THEN {"float8"} ELSE {"int8", "uint8"})
  /\ ZeroPoint \in (IF IsSat THEN {0} ELSE {TypeLowest(QType), 3, TypeMax(QType)})
  /\ saturate \in (IF IsSat THEN BOOLEAN ELSE {FALSE})
  /\ Output0 \in {[i \in 0 .. N |-> fill] : fill \in Fills}
  /\ Output = Output0
  /\ out_start = 0 /\ out_end = 0 /\ inp_start = 0 /\ inp_end = 0
  /\ ival_overflow = FALSE /\ inp_read = {} /\ serial_bytes = {}

\* lines 126-127 (244-245, 270-271, 294-295)
Std_Setup ==
  /\ IsStd /\ pc = "start"
  /\ block_size' = QuantBlockSize
  /\ num_blocks' = NumQuantBlocks(N)
  /\ pc' = "dispatch"
  /\ UNCHANGED <<func, roundVars, qpIn, qpOut, poolVars, quantIn, quantVars>>

\* line 129 (247, 273, 297): TryParallelFor splits the num_blocks work units
Std_Dispatch ==
  /\ IsStd /\ pc = "dispatch"
  /\ units' \in Splits(num_blocks)
  /\ finished' = {}
  /\ wrote' = [u \in units' |-> {}]
  /\ pc' = "parallel"
  /\ UNCHANGED <<func, roundVars, qpIn, qpOut, blockVars, quantIn, quantVars>>

\* lines 130-132 (248-255, 274-278, 298-302): the body of one unit.  The MLFloat16
\* loop of ParQuantizeLinearStd runs while begin_idx != end_idx, so it comes to an
\* end only from begin_idx <= end_idx.
Std_Unit(u) ==
  /\ IsStd /\ pc = "parallel"
  /\ u \in units \ finished
  /\ LET begin_idx == QuantBeginIdx(u[1])
         end_idx == QuantEndIdx(u[2], N)
         written == begin_idx .. (end_idx - 1)
     IN  /\ func = "ParQuantizeLinearStd_MLFloat16" => begin_idx <= end_idx
         /\ \E ival \in [{i \in written : F16Unfit(i)} -> IndeterminateInts] :
              Output' = [i \in DOMAIN Output |->
                           IF i < begin_idx \/ i >= end_idx THEN Output[i]
                           ELSE IF F16Unfit(i) THEN ClampOut(ival[i])
                           ELSE StdElement(i)]
         /\ wrote' = [wrote EXCEPT ![u] = written]
         /\ ival_overflow' = (ival_overflow \/ \E i \in written : F16Unfit(i))
         /\ inp_read' = inp_read \cup written
  /\ finished' = finished \cup {u}
  /\ UNCHANGED <<func, pc, roundVars, qpIn, qpOut, blockVars, units, quantIn, out_start,
                 out_end, inp_start, inp_end, N, serial_bytes>>

\* TryParallelFor returns once every unit has finished, and so does the routine
Std_Join ==
  /\ IsStd /\ pc = "parallel"
  /\ finished = units
  /\ pc' = "done"
  /\ UNCHANGED <<func, roundVars, qpIn, qpOut, blockVars, poolVars, quantIn, quantVars>>

NextStd ==
  \/ Std_Setup
  \/ Std_Dispatch
  \/ \E u \in units : Std_Unit(u)
  \/ Std_Join
SpecStd == InitStd /\ [][NextStd]_vars

\* C10: in the fixed-block dispatchers distinct units write disjoint index sets, no
\* unit writes an index >= N, when the routine has returned every index of [0, N)
\* was written by exactly one unit, and N = 0 dispatches no unit.
C10_EachIndexWrittenOnce ==
  (IsStd /\ pc \in {"parallel", "done"}) =>
    /\ \A u \in units : \A v \in units : u # v => wrote[u] \cap wrote[v] = {}
    /\ \A u \in units : \A i \in wrote[u] : 0 <= i /\ i < N
    /\ Output[N] = Output0[N]
    /\ pc = "done" =>
         \A i \in 0 .. (N - 1) : Cardinality({u \in units : i \in wrote[u]}) = 1
    /\ N = 0 => (num_blocks = 0 /\ units = {})
\* 257 elements in two units: the second unit wrote the last index alone
C10_Witness ==
  /\ IsStd /\ pc = "done" /\ N = 2 * QuantBlockSize + 1
  /\ Cardinality(units) = 2
  /\ \E u \in units : wrote[u] = {2 * QuantBlockSize}

\* the quotient Input[i] / Scale with its fraction dropped, and rounded to the
\* nearest integer (the even one on a tie)
Truncated(i) ==
  CHOOSE k \in (-Abs(Input[i])) .. Abs(Input[i]) :
    /\ Abs(k) * Scale <= Abs(Input[i]) /\ Abs(Input[i]) < (Abs(k) + 1) * Scale
    /\ k * Input[i] >= 0
Nearest(i) ==
  CHOOSE k \in (-Abs(Input[i]) - 1) .. (Abs(Input[i]) + 1) :
    /\ 2 * Abs(k * Scale - Input[i]) <= Scale
    /\ 2 * Abs(k * Scale - Input[i]) = Scale => k % 2 = 0
Clamped(v) ==
  IF v < TypeLowest(QType) THEN TypeLowest(QType)
  ELSE IF v > TypeMax(QType) THEN TypeMax(QType) ELSE v
F16Done == func = "ParQuantizeLinearStd_MLFloat16" /\ pc = "done"

\* C17 as stated: the MLFloat16 path stores clamp(trunc(Input[i] / Scale) + ZeroPoint)
\* at every i of [0, N), and that differs from clamp(round(Input[i] / Scale) +
\* ZeroPoint) exactly when rounding carries the quotient away from zero.
C17_DiffersExactlyWhenCarried ==
  F16Done =>
    \A i \in 0 .. (N - 1) :
      /\ Output[i] = Clamped(Truncated(i) + ZeroPoint)
      /\ Output[i] # Clamped(Nearest(i) + ZeroPoint) <=> Nearest(i) # Truncated(i)
\* C17 amended: the MLFloat16 path stores clamp(trunc(Input[i] / Scale) + ZeroPoint) at
\* every i of [0, N); that differs from the round-to-nearest result only when rounding
\* carries the quotient one away from zero, and it does differ then unless the clamp
\* brings both to the same bound.
C17_TruncatesTowardZero ==
  F16Done =>
    \A i \in 0 .. (N - 1) :
      LET t == Truncated(i)
          r == Nearest(i)
      IN  /\ Output[i] = Clamped(t + ZeroPoint)
          /\ Output[i] # Clamped(r + ZeroPoint) =>
               (r # t /\ Abs(r) = Abs(t) + 1)
          /\ (r # t /\ Clamped(t + ZeroPoint) = t + ZeroPoint
                     /\ Clamped(r + ZeroPoint) = r + ZeroPoint) =>
               Output[i] # Clamped(r + ZeroPoint)
\* Input[15] / Scale = 0.75 was stored as 0 + ZeroPoint, where rounding gives 1 + ZeroPoint
C17_Witness ==
  /\ F16Done /\ N > QuantBlockSize /\ Scale = 4 /\ Input[15] = 3
  /\ QType = "uint8" /\ ZeroPoint = 3 /\ Output[15] = 3
  /\ Cardinality(units) = 2

\* ------------------------------------------------ the calls, run to the end

InitLive ==
  \/ /\ InitStd
     /\ func \in {"ParQuantizeLinearStd", "ParQuantizeLinearStd_MLFloat16"}
     /\ Scale = 2 /\ ZeroPoint = 3 /\ Input = InputOf(0, N)
     /\ Output0 = [i \in 0 .. N |-> 0]
  \/ /\ InitQP
     /\ unit = "one" /\ dlo = NoSpike /\ dhi = NoSpike
NextLive == NextStd \/ NextQP
\* the caller goes on, and the pool runs every unit it was handed
SpecLive == InitLive /\ [][NextLive]_vars /\ WF_vars(NextLive)

\* C18: every call of ParQuantizeLinearStd (float and MLFloat16 input) and of
\* GetQuantizationParameter returns, every unit having finished its loop; the
\* MLFloat16 loop, which runs while begin_idx != end_idx, reaches end_idx.
C18_CallsComplete == <>(pc = "done" /\ finished = units)
\* an MLFloat16 call over three blocks has returned, each unit having written its indices
C18_Witness ==
  /\ F16Done /\ num_blocks = 3 /\ Cardinality(units) = 3 /\ finished = units
  /\ \A u \in units : wrote[u] = (u[1] * QuantBlockSize) .. (u[2] * QuantBlockSize - 1)

\* ------------------------------------------- the scalar paths on large floats

\* the floats at the two ends of Input: small ones and the largest of the type
EndVals == {-FltMax, -5, 5, FltMax}
EndInputOf(e, len) ==
  [i \in 0 .. (len - 1) |-> IF i = 0 \/ i = len - 1 THEN e ELSE Pattern(0, i)]
ScalarScales == {1, 2, 4}
IsScalar ==
  func \in {"ParQuantizeLinearStd_MLFloat16", "ParQuantizeLinearStdS4",
            "ParQuantizeLinearStdU4"}

InitScalar ==
  /\ pc = "start"
  /\ RoundIdle /\ PoolIdle
  /\ num_of_elements = 0 /\ pool = FALSE /\ unit = "one"
  /\ dbase = 0 /\ dlo = NoSpike /\ dhi = NoSpike
  /\ ReduceRange = FALSE /\ Symmetric = FALSE
  /\ aggregate = [i \in 0 .. (MAX_DEGREE_OF_PAR_FOR_MINMAX - 1) |-> Indeterminate]
  /\ scale = One /\ zp = 0
  /\ saturate = FALSE
  /\ inp_start = 0 /\ inp_end = 0
  /\ ival_overflow = FALSE /\ inp_read = {} /\ serial_bytes = {}
  /\ Scale \in ScalarScales
  /\ \/ /\ func \in {"ParQuantizeLinearStdS4", "ParQuantizeLinearStdU4"}
        /\ INT4_TYPE = (IF func = "ParQuantizeLinearStdS4" THEN "Int4x2" ELSE "UInt4x2")
        /\ QType = "uint8"
        /\ range \in {<<s, s + len>> : s \in 0 .. MaxStart, len \in 1 .. 4}
        /\ Input \in {EndInputOf(e, range[2] - range[1]) : e \in EndVals}
        /\ ZeroPoint \in {min_val(INT4_TYPE), max_val(INT4_TYPE)}
        /\ Output0 = [b \in 0 .. ((range[2] + 1) \div 2) |-> 0]
        /\ out_start = range[1] /\ out_end = range[2] /\ N = 0
     \/ /\ func = "ParQuantizeLinearStd_MLFloat16"
        /\ INT4_TYPE = "Int4x2"
        /\ QType \in {"int8", "uint8"}
        /\ N \in {1, 2, QuantBlockSize + 1}
        /\ range = <<0, N>>
        /\ Input \in {EndInputOf(e, N) : e \in EndVals}
        /\ ZeroPoint \in {TypeLowest(QType), TypeMax(QType)}
        /\ Output0 = [i \in 0 .. N |-> 0]
        /\ out_start = 0 /\ out_end = 0
  /\ Output = Output0

NextScalar == Next4 \/ NextStd
SpecScalar == InitScalar /\ [][NextScalar]_vars

\* every value the scalar paths stored lies in the destination type's range
StoredInRange ==
  /\ func = "ParQuantizeLinearStd_MLFloat16" =>
       \A u \in finished : \A i \in wrote[u] :
         TypeLowest(QType) <= Output[i] /\ Output[i] <= TypeMax(QType)
  /\ Is4Bit =>
       \A b \in serial_bytes \cap DOMAIN Output : 0 <= Output[b] /\ Output[b] <= 255

\* C11: in the scalar paths (the MLFloat16 loop of ParQuantizeLinearStd, the boundary
\* elements of the 4-bit routines) every value stored lies in the destination type's
\* [lowest, max], and no int32_t ival = int32(Input / Scale) + ZeroPoint was computed
\* outside the range of int32_t.
C11_StoredInRangeNoOverflow ==
  IsScalar => (StoredInRange /\ ~ival_overflow)

====
